---- MODULE Spec2Model ----
(***************************************************************************)
(* Request construction, extraction and time-series normalisation of the   *)
(* energy data repository (Elexon BMRS / ENTSO-E connectors and parsers).  *)
(*                                                                         *)
(* Four components are modelled , each with its own specification:        *)
(*   SpecBuild   - the Elexon parameter builders (the package builder      *)
(*                 ElexonParameterBuilder.build_params_generator and the   *)
(*                 module builder ElexonConnector._build_params_for_report)*)
(*   SpecExtract - connector construction and the extract loop over the    *)
(*                 ApiClient, for the Elexon and ENTSO-E connectors        *)
(*   SpecParse   - the time-series parsers of entsoe_parser.py and         *)
(*                 elexon_parser.py                                        *)
(*   SpecSave    - FileHandler.save_raw_data on a file system              *)
(***************************************************************************)
EXTENDS Integers, Sequences, FiniteSets, TLC

VARIABLES builder, ext, prs, store

vars == <<builder, ext, prs, store>>

(***************************************************************************)
(* Bounds of the model.                                                    *)
(***************************************************************************)
\* the query window's dates are day numbers 0..MaxDay
MaxDay == 2
\* a document holds at most MaxSeries series blocks
MaxSeries == 2
\* the points of a Period have positions in 1..MaxPosition
MaxPosition == 4

(***************************************************************************)
(* Python values.                                                          *)
(***************************************************************************)
\* Python's None, where a string is expected
None == "<None>"

\* dict: a function from its keys to its values; {} is the empty function
EmptyDict == <<>>

\* d[k] = v on a copy of d
Put(d, k, v) == [x \in (DOMAIN d) \cup {k} |-> IF x = k THEN v ELSE d[x]]

\* d.get(k, default)
Get(d, k, default) == IF k \in DOMAIN d THEN d[k] ELSE default

(***************************************************************************)
(* Dates: a date is a day number; the window of the model starts at        *)
(* 2024-12-30 so that it crosses a month and a year boundary.              *)
(* strftime('%Y-%m-%d') is the table IsoDates.                             *)
(***************************************************************************)
IsoDates == <<"2024-12-30", "2024-12-31", "2025-01-01", "2025-01-02",
              "2025-01-03", "2025-01-04", "2025-01-05", "2025-01-06">>

\* strftime('%Y-%m') in the place of strftime('%Y-%m-%d')
Iso_YearMonth(d) == IF d < 2 THEN "2024-12" ELSE "2025-01"

Iso(d) == IsoDates[d + 1]

Days == 0..MaxDay

(***************************************************************************)
(* Configuration: base URLs and the dialect they select.                   *)
(***************************************************************************)
PUBLIC_URL == "https://data.elexon.co.uk/bmrs/api/v1"
LEGACY_URL == "https://api.bmreports.com/BMRS"

\* 'data.elexon.co.uk' in (base_url or "")
IsPublicUrl(base_url) == base_url = PUBLIC_URL

ApiKeys == {"", "MYELEXONKEY"}

\* the report codes of the model: the two codes of the public path table and
\* one unmapped code
Codes == {"B1610", "B1620", "BOALF"}

ReportNames == [c \in Codes |->
                  CASE c = "B1610" -> "actual_total_load"
                    [] c = "B1620" -> "actual_aggregated_generation_per_type"
                    [] OTHER       -> "bid_offer_level_data"]

DateTypes == {None, "from_to_date", "settlement_date_period"}

\* static params of a report descriptor
StaticParams == { EmptyDict,
                  [settlementPeriodFrom |-> "5", settlementPeriodTo |-> "40"] }

Report(code, date_type, params) ==
    [name |-> ReportNames[code], code |-> code, version |-> "v1",
     date_param_type |-> date_type, params |-> params]

Configs == [base_url : {PUBLIC_URL, LEGACY_URL}, api_key : ApiKeys]

(***************************************************************************)
(* ElexonParameterBuilder (src/connectors/elexon/parameter_builder.py)     *)
(***************************************************************************)
DEFAULT_SP_FROM == 1
DEFAULT_SP_TO == 36

\* build_params_for_report with the defaults written over the descriptor's
\* settlementPeriodFrom / settlementPeriodTo
build_params_for_report_NoOverride(report, start_date, end_date) ==
    IF report.code \in {"B1610", "B1620"}
    THEN [x \in (DOMAIN report.params) \cup
                  {"from", "to", "settlementPeriodFrom", "settlementPeriodTo", "format"} |->
            CASE x = "from" -> Iso(start_date)
              [] x = "to" -> Iso(end_date)
              [] x = "settlementPeriodFrom" -> ToString(DEFAULT_SP_FROM)
              [] x = "settlementPeriodTo" -> ToString(DEFAULT_SP_TO)
              [] x = "format" -> "json"
              [] OTHER -> report.params[x]]
    ELSE report.params

\* ElexonParameterBuilder.build_params_for_report
build_params_for_report(report, start_date, end_date) ==
    IF report.code \in {"B1610", "B1620"}
    THEN LET p1 == Put(report.params, "from", Iso(start_date))
             p2 == Put(p1, "to", Iso(end_date))
             p3 == Put(p2, "settlementPeriodFrom",
                       Get(p2, "settlementPeriodFrom", ToString(DEFAULT_SP_FROM)))
             p4 == Put(p3, "settlementPeriodTo",
                       Get(p3, "settlementPeriodTo", ToString(DEFAULT_SP_TO)))
         IN  Put(p4, "format", "json")
    ELSE report.params

\* the days of a loop that stops before end_date
DayRange_HalfOpen(start_date, end_date) ==
    [i \in 1..(IF start_date < end_date THEN end_date - start_date ELSE 0)
       |-> start_date + i - 1]

\* the days start_date, start_date + 1, ... while current <= end_date
DayRange(start_date, end_date) ==
    [i \in 1..(IF start_date <= end_date THEN end_date - start_date + 1 ELSE 0)
       |-> start_date + i - 1]

\* ElexonParameterBuilder.build_params_generator: the sequence of the
\* (params, filename) pairs it yields
build_params_generator(report, start_date, end_date) ==
    IF report.code \in {"B1610", "B1620"}
    THEN << [params   |-> build_params_for_report(report, start_date, end_date),
             filename |-> report.name \o "/" \o Iso(start_date) \o "_to_"
                            \o Iso(end_date) \o ".json"] >>
    ELSE IF report.date_param_type = "from_to_date"
    THEN LET days == DayRange(start_date, end_date)
         IN  [i \in DOMAIN days |->
                [params   |-> [FromDate |-> Iso(days[i]), ToDate |-> Iso(days[i])],
                 filename |-> report.name \o "/" \o Iso(days[i]) \o ".xml"]]
    ELSE << [params   |-> report.params,
             filename |-> report.name \o "/" \o report.name \o ".json"] >>

(***************************************************************************)
(* ElexonConnector._build_params_for_report (src/connectors/elexon.py)     *)
(***************************************************************************)
SETTLEMENT_PERIODS == 48

\* f"{period:02d}"
Pad2(period) == IF period < 10 THEN "0" \o ToString(period) ELSE ToString(period)

\* the credential and content-type keys of the legacy dialect
WithCredential(params, api_key) ==
    Put(Put(params, "APIKey", api_key), "ServiceType", "xml")

\* the emissions of one day of the while loop of _build_params_for_report
LegacyDayEmissions(config, report, current_date) ==
    LET is_public   == IsPublicUrl(config.base_url)
        base_params == report.params
        day         == Iso(current_date)
    IN  IF report.date_param_type = "from_to_date"
        THEN LET p1 == IF is_public /\ report.code = "B1620"
                       THEN Put(Put(base_params, "publishDateTimeFrom", day \o " 00:00"),
                                "publishDateTimeTo", day \o " 23:59")
                       ELSE Put(Put(base_params, "FromDate", day), "ToDate", day)
                 p2 == IF ~is_public
                       THEN WithCredential(p1, config.api_key)
                       ELSE Put(p1, "format", "json")
             IN  << [params |-> p2, filename |-> report.name \o "/" \o day \o ".xml"] >>
        ELSE IF report.date_param_type = "settlement_date_period"
        THEN IF is_public /\ report.code = "B1610"
             THEN LET p1 == Put(Put(base_params, "from", day), "to", day)
                      p2 == Put(Put(p1, "settlementPeriodFrom", "1"),
                                "settlementPeriodTo", "48")
                  IN  << [params   |-> Put(p2, "format", "json"),
                          filename |-> report.name \o "/" \o day \o ".json"] >>
             ELSE [period \in 1..SETTLEMENT_PERIODS |->
                     [params   |-> WithCredential(
                                     Put(Put(base_params, "SettlementDate", day),
                                         "Period", ToString(period)),
                                     config.api_key),
                      filename |-> report.name \o "/" \o day \o "_P"
                                     \o Pad2(period) \o ".xml"]]
        ELSE << >>

RECURSIVE LegacyDays(_, _, _, _)
LegacyDays(config, report, current_date, end_date) ==
    IF current_date <= end_date
    THEN LegacyDayEmissions(config, report, current_date)
           \o LegacyDays(config, report, current_date + 1, end_date)
    ELSE << >>

\* ElexonConnector._build_params_for_report: the sequence of the
\* (params, filename) pairs it yields
_build_params_for_report(config, report, start_date, end_date) ==
    IF report.date_param_type = None
    THEN << [params   |-> IF ~IsPublicUrl(config.base_url)
                          THEN WithCredential(report.params, config.api_key)
                          ELSE Put(report.params, "format", "json"),
             filename |-> report.name \o "/" \o report.name \o ".xml"] >>
    ELSE LegacyDays(config, report, start_date, end_date)

(***************************************************************************)
(* ElexonConnector.build_params_for_report(report, current_date, period):  *)
(* the helper that builds the params of a single call.  Its keyword        *)
(* arguments are a dict: an absent key is the default None.  The outcome   *)
(* records whether the call raised, whether it returned None, and the      *)
(* params map it returned otherwise.                                       *)
(***************************************************************************)
Outcome(raised, none, params) == [raised |-> raised, none |-> none, params |-> params]

\* src/connectors/elexon/connector.py: the window is unpacked and the
\* function ends without a return statement
package_build_params_for_report(report, args) ==
    IF "current_date" \notin DOMAIN args
    THEN Outcome(TRUE, FALSE, EmptyDict)
    ELSE Outcome(FALSE, TRUE, EmptyDict)

\* src/connectors/elexon.py
module_build_params_for_report(config, report, args) ==
    LET is_public == IsPublicUrl(config.base_url)
        params    == IF ~is_public
                     THEN WithCredential(report.params, config.api_key)
                     ELSE report.params
        has_date  == "current_date" \in DOMAIN args
        day       == Iso(args.current_date)
        Returned(p) == Outcome(FALSE, FALSE, p)
    IN  IF report.date_param_type = None
        THEN Returned(params)
        ELSE IF report.date_param_type = "from_to_date" /\ has_date
        THEN IF is_public /\ report.code = "B1620"
             THEN Returned(Put(Put(params, "publishDateTimeFrom", day \o " 00:00"),
                               "publishDateTimeTo", day \o " 23:59"))
             ELSE Returned(Put(Put(params, "FromDate", day), "ToDate", day))
        ELSE IF report.date_param_type = "settlement_date_period" /\ has_date
        THEN IF is_public /\ report.code = "B1610"
             THEN LET p1 == Put(Put(params, "from", day), "to", day)
                  IN  Returned(IF "period" \in DOMAIN args
                               THEN Put(Put(p1, "settlementPeriodFrom",
                                            ToString(args.period)),
                                        "settlementPeriodTo", ToString(args.period))
                               ELSE p1)
             ELSE LET p1 == Put(params, "SettlementDate", day)
                  IN  Returned(IF "period" \in DOMAIN args
                               THEN Put(p1, "Period", ToString(args.period))
                               ELSE p1)
        ELSE Returned(params)

(***************************************************************************)
(* Credentials: the connectors resolve config['api_key'], which is a       *)
(* literal or a ${ENV_VAR} indirection read with os.getenv.                *)
(***************************************************************************)
ApiKeyConfigs == {"", "MYKEY", "${API_KEY}"}
EnvValues == {None, "ENVKEY"}

\* api_key_config.startswith("${") and api_key_config.endswith("}")
IsEnvPlaceholder(api_key_config) == api_key_config = "${API_KEY}"

\* the api key the connectors' __init__ hands to the client
ResolveApiKey(api_key_config, env) ==
    IF IsEnvPlaceholder(api_key_config) THEN env ELSE api_key_config

\* Python truthiness of a str | None
Truthy(x) == x \notin {None, ""}

(***************************************************************************)
(* HTTP: what one blocking GET ends in.                                    *)
(***************************************************************************)
INVALID_KEY_TEXT == "<error>The API key is invalid</error>"

Texts == {"", "<xml>data</xml>", INVALID_KEY_TEXT}

\* 'The API key is invalid' in raw
HasInvalidKeyMarker(raw) == raw = INVALID_KEY_TEXT

\* requests.exceptions.RequestException subclasses raised by session.get and
\* raise_for_status, or a 2xx response with its text
Responses == [kind : {"connection_error", "timeout", "http_error"}, text : {""}]
               \cup [kind : {"ok"}, text : Texts]

(***************************************************************************)
(* ElexonApiClient (src/connectors/elexon/api_client.py)                   *)
(***************************************************************************)
REQUEST_TIMEOUT == 30

PUBLIC_ENDPOINTS == [c \in {"B1620", "B1610"} |->
                       IF c = "B1620" THEN "generation/actual/per-type"
                                      ELSE "demand/actual/total"]

\* ElexonApiClient.__init__: never raises
ElexonApiClient(api_key, base_url) ==
    [raised |-> FALSE, api_key |-> api_key, base_url |-> base_url,
     is_public |-> IsPublicUrl(base_url)]

\* a _build_url that never consults PUBLIC_ENDPOINTS
_build_url_NoTable(client, report_code, version) ==
    client.base_url \o "/" \o report_code \o "/" \o version

\* ElexonApiClient._build_url
_build_url(client, report_code, version) ==
    IF client.is_public /\ report_code \in DOMAIN PUBLIC_ENDPOINTS
    THEN client.base_url \o "/" \o PUBLIC_ENDPOINTS[report_code]
    ELSE client.base_url \o "/" \o report_code \o "/" \o version

\* ElexonApiClient._prepare_params: the prepared params, or ValueError
_prepare_params(client, params) ==
    IF client.is_public
    THEN [raised |-> FALSE,
          params |-> IF "format" \notin DOMAIN params
                     THEN Put(params, "format", "json") ELSE params]
    ELSE IF ~Truthy(client.api_key)
         THEN [raised |-> TRUE, params |-> params]
         ELSE [raised |-> FALSE,
               params |-> WithCredential(params, client.api_key)]

\* ElexonApiClient.make_request, the GET ending in response
make_request(client, report_code, version, params, response) ==
    LET prepared == _prepare_params(client, params)
    IN  IF prepared.raised
        THEN [raised |-> TRUE, value |-> None, sent |-> FALSE,
              url |-> _build_url(client, report_code, version),
              params |-> params, timeout |-> REQUEST_TIMEOUT]
        ELSE [raised |-> FALSE,
              value  |-> IF response.kind = "ok" THEN response.text ELSE None,
              sent   |-> TRUE,
              url    |-> _build_url(client, report_code, version),
              params |-> prepared.params, timeout |-> REQUEST_TIMEOUT]

(***************************************************************************)
(* _ElexonApiClient (src/connectors/elexon.py)                             *)
(***************************************************************************)
_public_code_path_map == [c \in {"B1620", "B1610"} |->
                            IF c = "B1620" THEN "datasets/AGPT"
                                           ELSE "demand/actual/total"]

\* _ElexonApiClient.__init__: ValueError without a key for a BMRS base URL
_ElexonApiClient(api_key, base_url) ==
    [raised |-> ~Truthy(api_key) /\ ~IsPublicUrl(base_url),
     api_key |-> api_key, base_url |-> base_url,
     is_public |-> IsPublicUrl(base_url)]

\* _ElexonApiClient._make_request, the GET ending in response
_make_request(client, report_code, version, params, response) ==
    LET is_public == IsPublicUrl(client.base_url)
        final_params ==
            IF is_public
            THEN IF "format" \notin DOMAIN params
                 THEN Put(params, "format", "json") ELSE params
            ELSE WithCredential(params, client.api_key)
        url == IF is_public /\ report_code \in DOMAIN _public_code_path_map
               THEN client.base_url \o "/" \o _public_code_path_map[report_code]
               ELSE client.base_url \o "/" \o report_code \o "/" \o version
    IN  [raised |-> FALSE,
         value  |-> IF response.kind = "ok" THEN response.text ELSE None,
         sent   |-> TRUE, url |-> url, params |-> final_params,
         timeout |-> REQUEST_TIMEOUT]

(***************************************************************************)
(* ENTSO-E (src/connectors/entsoe/*.py and src/connectors/entsoe.py)       *)
(***************************************************************************)
ENTSOE_URL == "https://web-api.tp.entsoe.eu/api"

\* strftime('%Y%m%d%H%M') of a date (midnight)
CompactDates == <<"202412300000", "202412310000", "202501010000", "202501020000",
                  "202501030000", "202501040000", "202501050000", "202501060000",
                  "202501070000">>

Compact(d) == CompactDates[d + 1]

\* a config tree node: a string, or a mapping from keys to nodes
Str(s) == [tag |-> "str", val |-> s]
Dict(f) == [tag |-> "dict", val |-> f]

\* the source-level config block of the ENTSO-E connector (the keys that
\* placeholders can name)
EntsoeTree ==
    Dict([primary_bidding_zone |-> Str("10YGB----------A"),
          interconnectors |-> Dict([FR |-> Str("10YFR-RTE------C")])])

\* clean_placeholder.split('.') of a domain_params value
PlaceholderPath(placeholder) ==
    CASE placeholder = "${primary_bidding_zone}" -> <<"primary_bidding_zone">>
      [] placeholder = "${interconnectors.FR}"   -> <<"interconnectors", "FR">>
      [] placeholder = "${interconnectors.XX}"   -> <<"interconnectors", "XX">>
      [] placeholder = "${missing_zone}"         -> <<"missing_zone">>
      [] placeholder = "${primary_bidding_zone.FR}"
                                                 -> <<"primary_bidding_zone", "FR">>
      [] OTHER                                   -> <<placeholder>>

\* for key in keys: value = value[key]; KeyError and TypeError give ""
RECURSIVE Walk(_, _)
Walk(node, keys) ==
    IF keys = << >> THEN node
    ELSE IF node.tag = "dict" /\ Head(keys) \in DOMAIN node.val
         THEN Walk(node.val[Head(keys)], Tail(keys))
         ELSE Str("")

\* a resolution that looks the whole token up as one top-level key
_resolve_placeholder_TopLevelOnly(tree, placeholder) ==
    LET value == Walk(tree, <<Head(PlaceholderPath(placeholder))>>)
    IN  IF Len(PlaceholderPath(placeholder)) = 1 /\ value.tag = "str"
        THEN value.val ELSE ""

\* EntsoeConnector._resolve_placeholder
_resolve_placeholder(tree, placeholder) ==
    LET value == Walk(tree, PlaceholderPath(placeholder))
    IN  IF value.tag = "str" THEN value.val ELSE "<dict>"

\* the keys of a dict in insertion order are not modelled: the params are a map
RECURSIVE PutAll(_, _, _)
PutAll(params, d, keys) ==
    IF keys = {} THEN params
    ELSE LET k == CHOOSE x \in keys : TRUE
         IN  PutAll(Put(params, k, d[k]), d, keys \ {k})

\* build_params_for_day with periodEnd on the day of periodStart
build_params_for_day_SameDayEnd(query_config, query_date) ==
    LET p1 == IF "documentType" \in DOMAIN query_config
              THEN Put(query_config.params, "documentType", query_config.documentType)
              ELSE query_config.params
        p2 == Put(Put(p1, "periodStart", Compact(query_date)),
                  "periodEnd", Compact(query_date))
    IN  PutAll(p2, query_config.domain_params, DOMAIN query_config.domain_params)

\* EntsoeParameterBuilder.build_params_for_day, query_config['domain_params']
\* already resolved by the connector
build_params_for_day(query_config, query_date) ==
    LET p1 == IF "documentType" \in DOMAIN query_config
              THEN Put(query_config.params, "documentType", query_config.documentType)
              ELSE query_config.params
        p2 == Put(Put(p1, "periodStart", Compact(query_date)),
                  "periodEnd", Compact(query_date + 1))
    IN  PutAll(p2, query_config.domain_params, DOMAIN query_config.domain_params)

\* EntsoeConnector.extract lines 56-63 (package): the query with its domain
\* placeholders resolved
ResolvedQuery(tree, query_config) ==
    [query_config EXCEPT !.domain_params =
        [k \in DOMAIN query_config.domain_params |->
           _resolve_placeholder(tree, query_config.domain_params[k])]]

\* EntsoeConnector.build_params_for_query (package): the params of one day
\* with the credential added
build_params_for_query(tree, client, query_config, query_date) ==
    Put(build_params_for_day(ResolvedQuery(tree, query_config), query_date),
        "securityToken", client.api_key)

\* EntsoeConnector._build_params_for_day (module): a domain parameter that
\* resolves to empty is left out
_build_params_for_day(tree, query_config, query_date) ==
    LET p1 == Put(query_config.params, "documentType", query_config.documentType)
        p2 == Put(Put(p1, "periodStart", Compact(query_date)),
                  "periodEnd", Compact(query_date + 1))
        resolved == [k \in DOMAIN query_config.domain_params |->
                       _resolve_placeholder(tree, query_config.domain_params[k])]
    IN  PutAll(p2, resolved, {k \in DOMAIN resolved : Truthy(resolved[k])})

\* EntsoeApiClient.__init__ and _EntsoeApiClient.__init__: ValueError without a key
EntsoeApiClient(api_key, base_url) ==
    [raised |-> ~Truthy(api_key), api_key |-> api_key, base_url |-> base_url,
     is_public |-> FALSE]

\* RawData(payload, source_name, filename) of src/connectors/base.py
RawData(payload, source_name, filename) ==
    [payload |-> payload, source_name |-> source_name, filename |-> filename]

\* EntsoeApiClient.make_request; the session adds securityToken to the params
\* of every request
entsoe_make_request(client, params, response) ==
    [raised |-> FALSE,
     value  |-> IF response.kind = "ok" THEN response.text ELSE None,
     sent   |-> TRUE, url |-> client.base_url,
     params |-> IF "securityToken" \in DOMAIN params THEN params
                ELSE Put(params, "securityToken", client.api_key),
     timeout |-> REQUEST_TIMEOUT]

\* session.get without a timeout argument
NO_TIMEOUT == 0

\* _EntsoeApiClient._make_request
_entsoe_make_request(client, params, response) ==
    [entsoe_make_request(client, params, response) EXCEPT !.timeout = NO_TIMEOUT]

(***************************************************************************)
(* SpecBuild: a builder is given a descriptor and a window, and run.       *)
(***************************************************************************)
BuilderIdle == [pc |-> "idle"]
ExtIdle == [pc |-> "idle"]
PrsIdle == [pc |-> "idle"]
StoreIdle == [pc |-> "idle"]

\* the domain_params values of the model's queries: ${...} tokens naming a
\* top-level key, a nested key, a missing key, a missing nested key and a key
\* below a string, and a literal
Placeholders == {"${primary_bidding_zone}", "${interconnectors.FR}",
                 "${interconnectors.XX}", "${missing_zone}",
                 "${primary_bidding_zone.FR}"}
STATIC == "STATIC"

Query(name, documentType, params, domain_params) ==
    [name |-> name, documentType |-> documentType, params |-> params,
     domain_params |-> domain_params]

\* the query configs of SpecBuild: in_Domain is a token, out_Domain (if any)
\* another token or the literal
EntsoeQueries ==
    { Query("generation_per_type", "A75", [processType |-> "A16"], domain_params)
      : domain_params \in
          { [in_Domain |-> t] : t \in Placeholders }
            \cup { [in_Domain |-> t, out_Domain |-> u]
                   : t \in Placeholders, u \in {STATIC, "${interconnectors.FR}"} } }

\* the (params, filename) pairs of one ENTSO-E query, one a day
EntsoeQueryEmissions(kind, query_config, start_date, end_date) ==
    LET days == DayRange(start_date, end_date)
    IN  [i \in DOMAIN days |->
           [code |-> None, version |-> None, name |-> query_config.name,
            params |-> IF kind = "entsoe_package"
                       THEN build_params_for_day(
                              ResolvedQuery(EntsoeTree, query_config), days[i])
                       ELSE _build_params_for_day(EntsoeTree, query_config, days[i]),
            filename |-> query_config.name \o "/" \o Iso(days[i]) \o ".xml"]]

InitBuild ==
    /\ \/ \E impl \in {"package", "module"}, config \in Configs, code \in Codes,
             date_type \in DateTypes, params \in StaticParams,
             start_date \in Days, end_date \in Days :
            builder = [pc |-> "ready", impl |-> impl, config |-> config,
                       report |-> Report(code, date_type, params),
                       start_date |-> start_date, end_date |-> end_date,
                       emissions |-> << >>, params |-> EmptyDict,
                       resolved |-> EmptyDict, again |-> << >>,
                       args |-> EmptyDict, returned |-> Outcome(FALSE, TRUE, EmptyDict)]
       \/ \E impl \in {"entsoe_package", "entsoe_module"}, query \in EntsoeQueries,
             start_date \in Days, end_date \in Days :
            builder = [pc |-> "ready", impl |-> impl,
                       config |-> [base_url |-> ENTSOE_URL, api_key |-> "MYENTSOE"],
                       report |-> query,
                       start_date |-> start_date, end_date |-> end_date,
                       emissions |-> << >>, params |-> EmptyDict,
                       resolved |-> EmptyDict, again |-> << >>,
                       args |-> EmptyDict, returned |-> Outcome(FALSE, TRUE, EmptyDict)]
    /\ ext = ExtIdle
    /\ prs = PrsIdle
    /\ store = StoreIdle

\* the emission sequence of one run of a builder
BuilderEmissions(impl, config, report, start_date, end_date) ==
    CASE impl = "package" -> build_params_generator(report, start_date, end_date)
      [] impl = "module"  -> _build_params_for_report(config, report, start_date, end_date)
      [] OTHER            -> EntsoeQueryEmissions(impl, report, start_date, end_date)

\* list(ElexonParameterBuilder().build_params_generator(report, start, end))
RunPackageBuilder ==
    /\ builder.pc = "ready"
    /\ builder.impl = "package"
    /\ builder' = [builder EXCEPT !.pc = "done",
                     !.emissions = build_params_generator(
                                     builder.report, builder.start_date, builder.end_date)]
    /\ UNCHANGED <<ext, prs, store>>

\* list(connector._build_params_for_report(report, start, end))
RunModuleBuilder ==
    /\ builder.pc = "ready"
    /\ builder.impl = "module"
    /\ builder' = [builder EXCEPT !.pc = "done",
                     !.emissions = _build_params_for_report(
                                     builder.config, builder.report,
                                     builder.start_date, builder.end_date)]
    /\ UNCHANGED <<ext, prs, store>>

\* ElexonParameterBuilder().build_params_for_report(report, start, end)
RunBuildParamsForReport ==
    /\ builder.pc = "ready"
    /\ builder.impl = "package"
    /\ builder' = [builder EXCEPT !.pc = "params_done",
                     !.params = build_params_for_report(
                                  builder.report, builder.start_date, builder.end_date)]
    /\ UNCHANGED <<ext, prs, store>>

\* conn.build_params_for_query(query_cfg, query_date=query_date)
RunBuildParamsForQuery ==
    /\ builder.pc = "ready"
    /\ builder.impl = "entsoe_package"
    /\ \E query_date \in Days :
         builder' = [builder EXCEPT
                       !.pc = "query_done",
                       !.args = [query_date |-> query_date],
                       !.params = build_params_for_query(
                                    EntsoeTree, builder.config, builder.report,
                                    query_date)]
    /\ UNCHANGED <<ext, prs, store>>

\* connector.build_params_for_report(report, **args), the keyword arguments
\* being none, a date, or a date and a period
RunConnectorBuildParams ==
    /\ builder.pc = "ready"
    /\ builder.impl \in {"package", "module"}
    /\ \E args \in {EmptyDict}
                     \cup { [current_date |-> d] : d \in Days }
                     \cup { [current_date |-> d, period |-> p]
                            : d \in Days, p \in {5, 36} } :
         builder' = [builder EXCEPT
                       !.pc = "helper_done",
                       !.args = args,
                       !.returned =
                         IF builder.impl = "package"
                         THEN package_build_params_for_report(builder.report, args)
                         ELSE module_build_params_for_report(
                                builder.config, builder.report, args)]
    /\ UNCHANGED <<ext, prs, store>>

\* the ENTSO-E connectors: the domain placeholders of the query are resolved
\* against the connector's config, and the params of each day are built
RunEntsoeBuilder ==
    /\ builder.pc = "ready"
    /\ builder.impl \in {"entsoe_package", "entsoe_module"}
    /\ builder' = [builder EXCEPT !.pc = "done",
                     !.resolved = [k \in DOMAIN builder.report.domain_params |->
                                     _resolve_placeholder(
                                       EntsoeTree, builder.report.domain_params[k])],
                     !.emissions = EntsoeQueryEmissions(
                                     builder.impl, builder.report,
                                     builder.start_date, builder.end_date)]
    /\ UNCHANGED <<ext, prs, store>>

\* a second run of the same builder that reads os.environ for the credential
Rerun_EnvCredential ==
    /\ builder.pc = "done"
    /\ \E env \in EnvValues :
         builder' = [builder EXCEPT !.pc = "rerun",
                       !.again = BuilderEmissions(
                                   builder.impl, [builder.config EXCEPT !.api_key = env],
                                   builder.report, builder.start_date, builder.end_date)]
    /\ UNCHANGED <<ext, prs, store>>

\* a second run of the same builder on the same descriptor and window, after
\* the first one, whatever the environment then holds: the builders copy the
\* descriptor's params and read neither os.environ nor the clock
Rerun ==
    /\ builder.pc = "done"
    /\ \E env \in EnvValues :
         builder' = [builder EXCEPT !.pc = "rerun",
                       !.again = BuilderEmissions(
                                   builder.impl, builder.config,
                                   builder.report, builder.start_date, builder.end_date)]
    /\ UNCHANGED <<ext, prs, store>>

NextBuild ==
    \/ RunPackageBuilder
    \/ RunModuleBuilder
    \/ RunBuildParamsForReport
    \/ RunEntsoeBuilder
    \/ RunConnectorBuildParams
    \/ RunBuildParamsForQuery
    \/ Rerun

SpecBuild == InitBuild /\ [][NextBuild]_vars

(***************************************************************************)
(* SpecExtract: a connector is constructed from its config block, and      *)
(* extract(start_date, end_date) runs its request loop.                    *)
(***************************************************************************)
ConnectorKinds == {"elexon_package", "elexon_module", "entsoe_package", "entsoe_module"}

IsElexon(kind) == kind \in {"elexon_package", "elexon_module"}

\* BaseConnector.name
SourceName(kind) == IF IsElexon(kind) THEN "elexon" ELSE "entsoe"

\* static params of a descriptor that name the keys the dialects mandate
CallerKeys == [format |-> "csv", APIKey |-> "CALLERKEY", ServiceType |-> "csv"]

\* the report lists of the Elexon configs of SpecExtract: reports with at most
\* one emission a day
ElexonReportLists ==
    { << Report("BOALF", "from_to_date", EmptyDict) >>,
      << Report("BOALF", None, EmptyDict),
         Report("B1620", "from_to_date", EmptyDict) >>,
      << Report("BOALF", None, CallerKeys),
         Report("B1610", "from_to_date", EmptyDict) >> }

\* the query lists of the ENTSO-E configs of SpecExtract
EntsoeQueryLists ==
    { << Query("generation_per_type", "A75", [processType |-> "A16"],
               [in_Domain |-> "${primary_bidding_zone}"]) >>,
      << Query("total_load", "A65", [processType |-> "A16"],
               [outBiddingZone_Domain |-> "${missing_zone}"]),
         Query("day_ahead_prices", "A44", EmptyDict,
               [in_Domain |-> "${interconnectors.FR}", out_Domain |-> "STATIC"]) >> }

NoClient == [raised |-> TRUE]
NoResponse == [kind |-> "none", text |-> ""]
NoCall == [raised |-> FALSE, sent |-> FALSE, response |-> NoResponse, value |-> None]

\* the client the connector's __init__ constructs
NewClient(kind, api_key, base_url) ==
    CASE kind = "elexon_package" -> ElexonApiClient(api_key, base_url)
      [] kind = "elexon_module"  -> _ElexonApiClient(api_key, base_url)
      [] OTHER                   -> EntsoeApiClient(api_key, base_url)

\* the (params, filename) pairs of one Elexon report
ElexonReportEmissions(kind, client, report, start_date, end_date) ==
    LET pairs == IF kind = "elexon_package"
                 THEN build_params_generator(report, start_date, end_date)
                 ELSE _build_params_for_report(
                        [base_url |-> client.base_url, api_key |-> client.api_key],
                        report, start_date, end_date)
    IN  [i \in DOMAIN pairs |->
           [code |-> report.code, version |-> report.version, name |-> report.name,
            params |-> pairs[i].params, filename |-> pairs[i].filename]]

\* the emissions of extract's loops, in the order the loops reach them
RECURSIVE Emissions(_, _, _, _, _)
Emissions(kind, client, reports, start_date, end_date) ==
    IF reports = << >> THEN << >>
    ELSE (IF IsElexon(kind)
          THEN ElexonReportEmissions(kind, client, Head(reports), start_date, end_date)
          ELSE EntsoeQueryEmissions(kind, Head(reports), start_date, end_date))
         \o Emissions(kind, client, Tail(reports), start_date, end_date)

\* the client call of one loop iteration
Call(kind, client, emission, response) ==
    CASE kind = "elexon_package" ->
           make_request(client, emission.code, emission.version, emission.params, response)
      [] kind = "elexon_module" ->
           _make_request(client, emission.code, emission.version, emission.params, response)
      [] kind = "entsoe_package" ->
           entsoe_make_request(client, emission.params, response)
      [] OTHER -> _entsoe_make_request(client, emission.params, response)

\* the test without the invalid-key check of the Elexon connectors
Kept_TruthyOnly(kind, raw) == Truthy(raw)

\* the test that guards all_raw.append in the extract loops
Kept(kind, raw) ==
    IF IsElexon(kind)
    THEN Truthy(raw) /\ ~HasInvalidKeyMarker(raw)
    ELSE Truthy(raw)

(***************************************************************************)
(* Objects.  A dict is an object: a write through one name is seen through *)
(* every name bound to the same object.  The objects of a call are a map   *)
(* from the names of the code to the contents of the dicts they are bound  *)
(* to; d.copy() and dict(d) bind a name to a new object.                   *)
(***************************************************************************)
copy(objects, name, new_name) == Put(objects, new_name, objects[name])

\* the objects after the builder of an Elexon connector ran over a report:
\* the writes go to params / base_params, a copy of report_config['params']
\* (or a new dict), which holds the params yielded last
builder_objects(kind, client, report, start_date, end_date) ==
    LET pairs  == ElexonReportEmissions(kind, client, report, start_date, end_date)
        copied == copy([static |-> report.params], "static", "params")
    IN  IF pairs = << >> THEN copied
        ELSE Put(copied, "params", pairs[Len(pairs)].params)

\* the objects after extract resolved the domain placeholders of a query: the
\* package connector writes the resolved values to qc = dict(query_config),
\* the module connector resolves them while it builds the params of a day
resolve_objects(kind, tree, query_config) ==
    IF kind = "entsoe_package"
    THEN LET copied   == copy([query_config |-> query_config], "query_config", "qc")
             resolved == ResolvedQuery(tree, query_config).domain_params
         IN  IF resolved # EmptyDict
             THEN Put(copied, "qc", [copied.qc EXCEPT !.domain_params = resolved])
             ELSE copied
    ELSE [query_config |-> query_config]

\* a make_request that adds the dialect keys to the caller's dict
request_objects_InPlace(kind, emission, call) ==
    [params |-> call.params]

\* the objects after a make_request call: the Elexon clients write the dialect
\* keys to final_params = params.copy(), the ENTSO-E clients hand params to
\* session.get
request_objects(kind, emission, call) ==
    IF IsElexon(kind)
    THEN Put(copy([params |-> emission.params], "params", "final_params"),
             "final_params", call.params)
    ELSE [params |-> emission.params]

InitExtract ==
    /\ \E kind \in ConnectorKinds, api_key \in ApiKeyConfigs, env \in EnvValues,
          start_date \in Days, end_date \in Days :
         \E base_url \in (IF IsElexon(kind) THEN {PUBLIC_URL, LEGACY_URL} ELSE {ENTSOE_URL}),
            reports \in (IF IsElexon(kind) THEN ElexonReportLists ELSE EntsoeQueryLists) :
           ext = [pc |-> "new", kind |-> kind,
                  config |-> [base_url |-> base_url, api_key |-> api_key,
                              reports |-> reports],
                  env |-> env, client |-> NoClient,
                  start_date |-> start_date, end_date |-> end_date,
                  emissions |-> << >>, next |-> 1, calls |-> << >>,
                  last |-> NoCall, result |-> << >>,
                  held |-> [reports |-> reports, params |-> EmptyDict]]
    /\ builder = BuilderIdle
    /\ prs = PrsIdle
    /\ store = StoreIdle

\* ElexonConnector.__init__ / EntsoeConnector.__init__
Construct ==
    /\ ext.pc = "new"
    /\ LET client == NewClient(ext.kind,
                               ResolveApiKey(ext.config.api_key, ext.env),
                               ext.config.base_url)
       IN  ext' = [ext EXCEPT !.pc = IF client.raised THEN "config_error"
                                                     ELSE "constructed",
                              !.client = client]
    /\ UNCHANGED <<builder, prs, store>>

\* extract(start_date, end_date) is called
BeginExtract ==
    /\ ext.pc = "constructed"
    /\ ext' = [ext EXCEPT !.pc = "extracting",
                          !.emissions = Emissions(ext.kind, ext.client, ext.config.reports,
                                                  ext.start_date, ext.end_date),
                          !.held.reports =
                            [i \in DOMAIN ext.config.reports |->
                               IF IsElexon(ext.kind)
                               THEN [ext.config.reports[i] EXCEPT !.params =
                                       builder_objects(ext.kind, ext.client,
                                                       ext.config.reports[i],
                                                       ext.start_date,
                                                       ext.end_date).static]
                               ELSE resolve_objects(ext.kind, EntsoeTree,
                                                    ext.config.reports[i]).query_config]]
    /\ UNCHANGED <<builder, prs, store>>

\* one iteration of the extract loop: the request of the next emission
Request ==
    /\ ext.pc = "extracting"
    /\ ext.next <= Len(ext.emissions)
    /\ \E response \in Responses :
         LET emission == ext.emissions[ext.next]
             call     == Call(ext.kind, ext.client, emission, response)
         IN  ext' = IF call.raised
                    THEN [ext EXCEPT !.pc = "raised",
                                     !.last = [raised |-> TRUE, sent |-> FALSE,
                                               response |-> NoResponse,
                                               value |-> None],
                                     !.held.params =
                                       request_objects(ext.kind, emission, call).params]
                    ELSE [ext EXCEPT
                            !.next = @ + 1,
                            !.held.params =
                              request_objects(ext.kind, emission, call).params,
                            !.last = [raised |-> FALSE, sent |-> TRUE,
                                      response |-> response, value |-> call.value],
                            !.calls = Append(@, [filename |-> emission.filename,
                                                 value |-> call.value,
                                                 name |-> emission.name,
                                                 url |-> call.url,
                                                 params |-> call.params]),
                            !.result = IF Kept(ext.kind, call.value)
                                       THEN Append(@, RawData(call.value,
                                                              SourceName(ext.kind),
                                                              emission.filename))
                                       ELSE @]
    /\ UNCHANGED <<builder, prs, store>>

\* the loops are exhausted: extract returns all_raw
Return ==
    /\ ext.pc = "extracting"
    /\ ext.next > Len(ext.emissions)
    /\ ext' = [ext EXCEPT !.pc = "done"]
    /\ UNCHANGED <<builder, prs, store>>

NextExtract == Construct \/ BeginExtract \/ Request \/ Return

SpecExtract == InitExtract /\ [][NextExtract]_vars

(***************************************************************************)
(* Documents.  A raw document is XML or JSON text; the model keeps its     *)
(* tree: a list of series blocks, each with a category label and a Period  *)
(* (start time, resolution token, points).  A missing element or key is    *)
(* None.  A resolution token is the sequence of its characters.            *)
(***************************************************************************)
PT15M == <<"P", "T", "1", "5", "M">>
PT30M == <<"P", "T", "3", "0", "M">>
PT60M == <<"P", "T", "6", "0", "M">>
PT1H == <<"P", "T", "1", "H">>
BAD_TOKEN == <<"X", "Y">>
NO_TOKEN == <<None>>

Tokens == {PT15M, PT30M, PT60M, PT1H}

\* the duration a resolution token denotes, in minutes (ISO 8601)
TokenMinutes(token) ==
    CASE token = PT15M -> 15
      [] token = PT30M -> 30
      [] token = PT60M -> 60
      [] token = PT1H  -> 60

\* start-time texts and the instants they denote, in minutes after
\* 2024-01-15T00:00Z
StartTexts == <<"2024-01-15T00:00Z", "2024-01-16T00:00Z", "2024-01-17T12:00Z",
                "2024-01-18T00:00Z">>

StartMinutes(text) ==
    CASE text = "2024-01-15T00:00Z" -> 0
      [] text = "2024-01-16T00:00Z" -> 1440
      [] text = "2024-01-17T12:00Z" -> 3600
      [] text = "2024-01-18T00:00Z" -> 4320

BAD_TEXT == "n/a"

Labels == <<"B16", "B19", "B01", "B02">>

\* a timestamp that is None / NaT
NoTimestamp == -1

Digits == {"0", "1", "2", "3", "4", "5", "6", "7", "8", "9"}

DigitValue(c) == CHOOSE n \in 0..9 : ToString(n) = c

\* str.lstrip(chars) / str.rstrip(chars) / str.strip(chars)
RECURSIVE LStrip(_, _)
LStrip(str, chars) ==
    IF str # << >> /\ Head(str) \in chars THEN LStrip(Tail(str), chars) ELSE str

RECURSIVE RStrip(_, _)
RStrip(str, chars) ==
    IF str # << >> /\ str[Len(str)] \in chars
    THEN RStrip(SubSeq(str, 1, Len(str) - 1), chars) ELSE str

Strip(str, chars) == RStrip(LStrip(str, chars), chars)

\* the value of a string of decimal digits
RECURSIVE DigitsValue(_)
DigitsValue(str) ==
    IF str = << >> THEN 0
    ELSE 10 * DigitsValue(SubSeq(str, 1, Len(str) - 1)) + DigitValue(str[Len(str)])

\* int(str): the number, or ValueError
IntOf(str) ==
    IF str # << >> /\ \A i \in DOMAIN str : str[i] \in Digits
    THEN [raised |-> FALSE, value |-> DigitsValue(str)]
    ELSE [raised |-> TRUE, value |-> 0]

\* re.search(r"(\d+)", str): the first maximal run of digits, << >> when none
RECURSIVE DigitRun(_)
DigitRun(str) ==
    IF str # << >> /\ Head(str) \in Digits
    THEN <<Head(str)>> \o DigitRun(Tail(str)) ELSE << >>

RECURSIVE FirstDigits(_)
FirstDigits(str) ==
    IF str = << >> THEN << >>
    ELSE IF Head(str) \in Digits THEN DigitRun(str) ELSE FirstDigits(Tail(str))

\* int(text) of a position text: None gives TypeError/AttributeError, a
\* non-numeric text ValueError
PositionTexts == [p \in 1..(MaxPosition + 1) |-> ToString(p)]

IntOfText(text) ==
    IF \E p \in DOMAIN PositionTexts : PositionTexts[p] = text
    THEN [raised |-> FALSE,
          value |-> CHOOSE p \in DOMAIN PositionTexts : PositionTexts[p] = text]
    ELSE [raised |-> TRUE, value |-> 0]

\* float(text): the number (kept as its text), or an exception
NumericTexts == {"100.5", "250.0"}

FloatOfText(text) ==
    IF text \in NumericTexts THEN [raised |-> FALSE, value |-> text]
                             ELSE [raised |-> TRUE, value |-> "NaN"]

\* pd.to_numeric(text, errors='coerce'), and pd.to_numeric(None)
ToNumericCoerce(text) == IF text \in NumericTexts THEN text ELSE "NaN"

\* pd.to_datetime(text): None for None, an exception for an unparseable text
ToDatetime(text) ==
    IF text = None THEN [raised |-> FALSE, value |-> NoTimestamp, none |-> TRUE]
    ELSE IF \E i \in DOMAIN StartTexts : StartTexts[i] = text
    THEN [raised |-> FALSE, value |-> StartMinutes(text), none |-> FALSE]
    ELSE [raised |-> TRUE, value |-> NoTimestamp, none |-> FALSE]

\* pd.to_datetime(text, errors='coerce'): None for None, NaT for an
\* unparseable text
ToDatetimeCoerce(text) ==
    IF text = None THEN [nat |-> FALSE, value |-> NoTimestamp, none |-> TRUE]
    ELSE IF \E i \in DOMAIN StartTexts : StartTexts[i] = text
    THEN [nat |-> FALSE, value |-> StartMinutes(text), none |-> FALSE]
    ELSE [nat |-> TRUE, value |-> NoTimestamp, none |-> FALSE]

(***************************************************************************)
(* Parser results: the records of the DataFrame, or an exception that      *)
(* leaves the parser; log lists each reduction of a resolution token.      *)
(***************************************************************************)
Ok(records, log) == [raised |-> FALSE, records |-> records, log |-> log]
Raise(log) == [raised |-> TRUE, records |-> << >>, log |-> log]

\* a then b, an exception in either one leaving the parser
Then(a, b) ==
    IF a.raised THEN a
    ELSE IF b.raised THEN Raise(a.log \o b.log)
    ELSE Ok(a.records \o b.records, a.log \o b.log)

LogEntry(token, reduced) ==
    [token |-> token, raised |-> reduced.raised, minutes |-> reduced.value]

Record(timestamp, label, value) ==
    [timestamp |-> timestamp, label |-> label, value |-> value]

\* start_time + pd.to_timedelta((position - 1) * resolution_minutes, unit='m')
Timestamp(start_time, position, resolution_minutes) ==
    start_time + (position - 1) * resolution_minutes

(***************************************************************************)
(* entsoe_parser.py                                                        *)
(***************************************************************************)
PTM == {"P", "T", "M"}
PTH == {"P", "T", "H"}

\* parse_generation line 57 and parse_load line 166:
\* int(resolution_str.strip('PTM'))
resolution_minutes_strip(resolution_str) == IntOf(Strip(resolution_str, PTM))

\* parse_prices lines 112-115
resolution_minutes_prices(resolution_str) ==
    IF \E i \in DOMAIN resolution_str : resolution_str[i] = "H"
    THEN LET hours == IntOf(Strip(resolution_str, PTH))
         IN  [raised |-> hours.raised, value |-> hours.value * 60]
    ELSE IntOf(Strip(resolution_str, PTM))

\* the Point loop of parse_generation (lines 60-75)
RECURSIVE generation_points(_, _, _, _)
generation_points(points, start_time, resolution_minutes, fuel_type) ==
    IF points = << >> THEN Ok(<< >>, << >>)
    ELSE LET point    == Head(points)
             position == IntOfText(point.position)
             quantity == FloatOfText(point.quantity)
         IN  IF position.raised \/ quantity.raised THEN Raise(<< >>)
             ELSE Then(Ok(<< Record(Timestamp(start_time, position.value,
                                              resolution_minutes),
                                    fuel_type, quantity.value) >>, << >>),
                       generation_points(Tail(points), start_time,
                                         resolution_minutes, fuel_type))

\* one TimeSeries block of parse_generation (lines 44-75)
generation_series(time_series) ==
    IF time_series.label = None THEN Ok(<< >>, << >>)
    ELSE IF time_series.periods = << >> THEN Ok(<< >>, << >>)
    ELSE LET period     == Head(time_series.periods)
             start_time == ToDatetime(period.start)
             reduced    == resolution_minutes_strip(period.resolution)
         IN  IF start_time.none \/ start_time.raised THEN Raise(<< >>)
             ELSE IF period.resolution = NO_TOKEN THEN Raise(<< >>)
             ELSE IF reduced.raised
             THEN Raise(<< LogEntry(period.resolution, reduced) >>)
             ELSE Then(Ok(<< >>, << LogEntry(period.resolution, reduced) >>),
                       generation_points(period.points, start_time.value,
                                         reduced.value, time_series.label))

RECURSIVE generation_all(_)
generation_all(series) ==
    IF series = << >> THEN Ok(<< >>, << >>)
    ELSE Then(generation_series(Head(series)), generation_all(Tail(series)))

\* parse_generation
parse_generation(doc) ==
    IF ~doc.wellformed \/ doc.encoding # "xml" THEN Ok(<< >>, << >>)
    ELSE generation_all(doc.series)

\* the Point loop of parse_prices (lines 118-131) and of parse_load (169-182):
\* a Point without its value element is skipped
RECURSIVE value_points(_, _, _)
value_points(points, start_time, resolution_minutes) ==
    IF points = << >> THEN Ok(<< >>, << >>)
    ELSE LET point    == Head(points)
             position == IntOfText(point.position)
             value    == FloatOfText(point.quantity)
             rest     == value_points(Tail(points), start_time, resolution_minutes)
         IN  IF position.raised THEN Raise(<< >>)
             ELSE IF point.quantity = None THEN rest
             ELSE IF value.raised THEN Raise(<< >>)
             ELSE Then(Ok(<< Record(Timestamp(start_time, position.value,
                                              resolution_minutes),
                                    None, value.value) >>, << >>),
                       rest)

\* one TimeSeries block of parse_prices (lines 105-131)
prices_series(time_series) ==
    IF time_series.periods = << >> THEN Ok(<< >>, << >>)
    ELSE LET period     == Head(time_series.periods)
             start_time == ToDatetime(period.start)
             reduced    == resolution_minutes_prices(period.resolution)
         IN  IF start_time.none \/ start_time.raised THEN Raise(<< >>)
             ELSE IF period.resolution = NO_TOKEN THEN Raise(<< >>)
             ELSE IF reduced.raised
             THEN Raise(<< LogEntry(period.resolution, reduced) >>)
             ELSE Then(Ok(<< >>, << LogEntry(period.resolution, reduced) >>),
                       value_points(period.points, start_time.value, reduced.value))

RECURSIVE prices_all(_)
prices_all(series) ==
    IF series = << >> THEN Ok(<< >>, << >>)
    ELSE Then(prices_series(Head(series)), prices_all(Tail(series)))

\* parse_prices
parse_prices(doc) ==
    IF ~doc.wellformed \/ doc.encoding # "xml" THEN Ok(<< >>, << >>)
    ELSE prices_all(doc.series)

\* one TimeSeries block of parse_load (lines 160-182)
load_series(time_series) ==
    IF time_series.periods = << >> THEN Ok(<< >>, << >>)
    ELSE LET period     == Head(time_series.periods)
             start_time == ToDatetime(period.start)
             reduced    == resolution_minutes_strip(period.resolution)
         IN  IF start_time.none \/ start_time.raised THEN Raise(<< >>)
             ELSE IF period.resolution = NO_TOKEN THEN Raise(<< >>)
             ELSE IF reduced.raised
             THEN Raise(<< LogEntry(period.resolution, reduced) >>)
             ELSE Then(Ok(<< >>, << LogEntry(period.resolution, reduced) >>),
                       value_points(period.points, start_time.value, reduced.value))

RECURSIVE load_all(_)
load_all(series) ==
    IF series = << >> THEN Ok(<< >>, << >>)
    ELSE Then(load_series(Head(series)), load_all(Tail(series)))

\* parse_load
parse_load(doc) ==
    IF ~doc.wellformed \/ doc.encoding # "xml" THEN Ok(<< >>, << >>)
    ELSE load_all(doc.series)

(***************************************************************************)
(* elexon_parser.py: parse_physical_notifications                          *)
(***************************************************************************)
\* lines 153-156 and 188-190: the resolution defaults to 'PT30M';
\* m = re.search(r"(\d+)", resolution_str or ""); int(m.group(1)) if m else 30
resolution_minutes_search(resolution) ==
    LET resolution_str == IF resolution = NO_TOKEN THEN PT30M ELSE resolution
        m == FirstDigits(resolution_str)
    IN  [raised |-> FALSE, value |-> IF m # << >> THEN DigitsValue(m) ELSE 30]

\* the point loop of the JSON branch (lines 160-171)
RECURSIVE notification_points_json(_, _, _, _)
notification_points_json(points, start_time, resolution_minutes, bm_unit_id) ==
    IF points = << >> THEN Ok(<< >>, << >>)
    ELSE LET point    == Head(points)
             position == IntOfText(point.position)
             quantity == ToNumericCoerce(point.quantity)
             rest     == notification_points_json(Tail(points), start_time,
                                                  resolution_minutes, bm_unit_id)
         IN  IF point.position = None
             THEN Then(Ok(<< Record(NoTimestamp, bm_unit_id, quantity) >>, << >>), rest)
             ELSE IF position.raised THEN Raise(<< >>)
             ELSE IF start_time.nat
             THEN Then(Ok(<< Record(NoTimestamp, bm_unit_id, quantity) >>, << >>), rest)
             ELSE IF start_time.none THEN Raise(<< >>)
             ELSE Then(Ok(<< Record(Timestamp(start_time.value, position.value,
                                              resolution_minutes),
                                    bm_unit_id, quantity) >>, << >>),
                       rest)

\* the period loop of the JSON branch (lines 151-171); errors='coerce' turns
\* an unparseable start into NaT
RECURSIVE notification_periods_json(_, _)
notification_periods_json(periods, bm_unit_id) ==
    IF periods = << >> THEN Ok(<< >>, << >>)
    ELSE LET period  == Head(periods)
             reduced == resolution_minutes_search(period.resolution)
         IN  Then(Then(Ok(<< >>, << LogEntry(period.resolution, reduced) >>),
                       notification_points_json(period.points,
                                                ToDatetimeCoerce(period.start),
                                                reduced.value, bm_unit_id)),
                  notification_periods_json(Tail(periods), bm_unit_id))

RECURSIVE notification_series_json(_)
notification_series_json(series) ==
    IF series = << >> THEN Ok(<< >>, << >>)
    ELSE Then(notification_periods_json(Head(series).periods, Head(series).label),
              notification_series_json(Tail(series)))

\* the point loop of the XML branch (lines 191-199)
RECURSIVE notification_points_xml(_, _, _, _)
notification_points_xml(points, start_time, resolution_minutes, bm_unit_id) ==
    IF points = << >> THEN Ok(<< >>, << >>)
    ELSE LET point    == Head(points)
             position == IntOfText(point.position)
         IN  IF position.raised THEN Raise(<< >>)
             ELSE IF point.quantity # None /\ point.quantity \notin NumericTexts
             THEN Raise(<< >>)
             ELSE IF start_time.none THEN Raise(<< >>)
             ELSE Then(Ok(<< Record(Timestamp(start_time.value, position.value,
                                              resolution_minutes),
                                    bm_unit_id, ToNumericCoerce(point.quantity)) >>,
                          << >>),
                       notification_points_xml(Tail(points), start_time,
                                               resolution_minutes, bm_unit_id))

\* the period loop of the XML branch (lines 186-199)
RECURSIVE notification_periods_xml(_, _)
notification_periods_xml(periods, bm_unit_id) ==
    IF periods = << >> THEN Ok(<< >>, << >>)
    ELSE LET period     == Head(periods)
             start_time == ToDatetime(period.start)
             reduced    == resolution_minutes_search(period.resolution)
         IN  IF start_time.raised THEN Raise(<< >>)
             ELSE Then(Then(Ok(<< >>, << LogEntry(period.resolution, reduced) >>),
                            notification_points_xml(period.points, start_time,
                                                    reduced.value, bm_unit_id)),
                       notification_periods_xml(Tail(periods), bm_unit_id))

RECURSIVE notification_series_xml(_)
notification_series_xml(series) ==
    IF series = << >> THEN Ok(<< >>, << >>)
    ELSE Then(notification_periods_xml(Head(series).periods, Head(series).label),
              notification_series_xml(Tail(series)))

\* parse_physical_notifications: JSON first; any exception of the JSON branch
\* falls back to XML, and text that is not XML gives an empty DataFrame
parse_physical_notifications(doc) ==
    IF ~doc.wellformed THEN Ok(<< >>, << >>)
    ELSE IF doc.encoding = "json"
    THEN LET json == notification_series_json(doc.series)
         IN  IF json.raised THEN Ok(<< >>, json.log) ELSE json
    ELSE notification_series_xml(doc.series)

(***************************************************************************)
(* SpecParse: a parser is given a raw document, and run.                   *)
(***************************************************************************)
\* a parsed JSON value: a list of values, a dict (its items in document order,
\* each a key and a value) or a scalar
Json(tag, val) == [tag |-> tag, val |-> val]

\* the container keys of _extract_items_from_json, in the order they are tried
ContainerKeys == <<"responseBody", "data", "results", "items", "dataset",
                   "dataSets", "rows", "timeSeries", "results">>

\* _extract_items_from_json (src/transformers/parsers/elexon_parser.py); a
\* list is returned as the sequence of its elements
RECURSIVE _extract_items_from_json(_)
RECURSIVE FirstTruthy(_)
_extract_items_from_json(obj) ==
    IF obj.tag = "list"
    THEN IF obj.val # << >> /\ obj.val[1].tag = "dict"
         THEN obj.val
         ELSE FirstTruthy(obj.val)
    ELSE IF obj.tag = "dict"
    THEN LET present == { i \in DOMAIN ContainerKeys :
                            \E j \in DOMAIN obj.val : obj.val[j].key = ContainerKeys[i] }
         IN  IF present # {}
             THEN LET i == CHOOSE x \in present : \A y \in present : x <= y
                      j == CHOOSE x \in DOMAIN obj.val : obj.val[x].key = ContainerKeys[i]
                  IN  _extract_items_from_json(obj.val[j].value)
             ELSE FirstTruthy([j \in DOMAIN obj.val |-> obj.val[j].value])
    ELSE << >>

\* for v in values: res = _extract_items_from_json(v); if res: return res
FirstTruthy(values) ==
    IF values = << >> THEN << >>
    ELSE LET res == _extract_items_from_json(Head(values))
         IN  IF res # << >> THEN res ELSE FirstTruthy(Tail(values))

\* the JSON documents of the model: scalars, records, lists of records and of
\* scalars, dicts of one or two keys over them, and those one level down
JsonDocuments ==
    LET scalar  == Json("scalar", << >>)
        Item(k, v) == [key |-> k, value |-> v]
        rec1    == Json("dict", << Item("x", scalar) >>)
        rec2    == Json("dict", << Item("y", scalar) >>)
        leaves  == { scalar, Json("list", << >>), Json("dict", << >>),
                     Json("list", << rec1 >>), Json("list", << rec2, rec1 >>),
                     Json("list", << scalar >>) }
        keys    == {"data", "rows", "other"}
        single  == { Json("dict", << Item(k, v) >>) : k \in keys, v \in leaves }
        double  == { Json("dict", << Item(kk[1], v1), Item(kk[2], v2) >>)
                     : kk \in { pair \in keys \X keys : pair[1] # pair[2] },
                       v1 \in leaves, v2 \in leaves }
        lists   == { Json("list", << v1, v2 >>) : v1 \in single, v2 \in leaves }
        nested  == { Json("dict", << Item(k, v) >>)
                     : k \in {"responseBody", "other"}, v \in single \cup double }
    IN  leaves \cup single \cup double \cup lists \cup nested

Families == {"generation", "prices", "load", "physical_notifications"}

\* the position lists of the Periods of the model
PositionLists == << << >>, << 1 >>, [i \in 1..MaxPosition |-> i], << MaxPosition, 2 >> >>

\* the position list of the i-th series block of a document of a given shape:
\* the blocks of one document differ in their number of points
PositionsOf(shape, i) == PositionLists[((shape + i - 2) % Len(PositionLists)) + 1]

Point(position, quantity) == [position |-> position, quantity |-> quantity]

\* the i-th series block of a document: its own label and start time
Series(i, token, positions) ==
    [label   |-> Labels[i],
     periods |-> << [start      |-> StartTexts[i],
                     resolution |-> token,
                     points     |-> [j \in DOMAIN positions |->
                                       Point(ToString(positions[j]),
                                             IF j % 2 = 1 THEN "100.5" ELSE "250.0")]] >>]

Defects == {"truncated", "no_label", "no_period", "no_start", "bad_start",
            "no_resolution", "bad_resolution", "no_position", "bad_position",
            "no_quantity", "bad_quantity"}

\* the first Period of a series with one of its fields replaced
WithPeriod(series, field, value) ==
    [series EXCEPT !.periods[1] = [@ EXCEPT ![field] = value]]

\* the first Point of the first Period of a series with a field replaced
WithPoint(series, field, value) ==
    IF series.periods[1].points = << >> THEN series
    ELSE [series EXCEPT !.periods[1].points[1] = [@ EXCEPT ![field] = value]]

DefectiveSeries(series, defect) ==
    CASE defect = "no_label"       -> [series EXCEPT !.label = None]
      [] defect = "no_period"      -> [series EXCEPT !.periods = << >>]
      [] defect = "no_start"       -> WithPeriod(series, "start", None)
      [] defect = "bad_start"      -> WithPeriod(series, "start", BAD_TEXT)
      [] defect = "no_resolution"  -> WithPeriod(series, "resolution", NO_TOKEN)
      [] defect = "bad_resolution" -> WithPeriod(series, "resolution", BAD_TOKEN)
      [] defect = "no_position"    -> WithPoint(series, "position", None)
      [] defect = "bad_position"   -> WithPoint(series, "position", "x")
      [] defect = "no_quantity"    -> WithPoint(series, "quantity", None)
      [] defect = "bad_quantity"   -> WithPoint(series, "quantity", "abc")
      [] OTHER                     -> series

\* the documents of the model: up to MaxSeries sound series blocks, each with
\* its own resolution token, the same with one defect in one block or with
\* the text cut short, and the same with a second Period in one block
SeriesLists ==
    UNION { { [i \in 1..k |-> Series(i, tokens[i], PositionsOf(shape, i))]
              : tokens \in [1..k -> Tokens], shape \in DOMAIN PositionLists }
            : k \in 0..MaxSeries }

Documents ==
    UNION { { [encoding |-> encoding, wellformed |-> TRUE, series |-> series]
              : encoding \in {"xml", "json"} }
            \cup
            { [encoding |-> encoding, wellformed |-> (defect # "truncated"),
               series |-> [series EXCEPT ![at] = DefectiveSeries(@, defect)]]
              : encoding \in {"xml", "json"}, defect \in Defects,
                at \in DOMAIN series }
            \cup
            { [encoding |-> encoding, wellformed |-> TRUE,
               series |-> [series EXCEPT ![at].periods =
                             Append(@, [start      |-> StartTexts[at + 1],
                                        resolution |-> PT30M,
                                        points     |-> << Point("1", "100.5"),
                                                          Point("2", "250.0") >>])]]
              : encoding \in {"xml", "json"}, at \in DOMAIN series }
          : series \in SeriesLists }

InitParse ==
    /\ \/ \E family \in Families, doc \in Documents :
            /\ (doc.encoding = "json" => family = "physical_notifications")
            /\ prs = [pc |-> "ready", family |-> family, doc |-> doc,
                      out |-> Ok(<< >>, << >>)]
       \/ \E data \in JsonDocuments :
            prs = [pc |-> "data_loaded", data |-> data, items |-> << >>]
    /\ builder = BuilderIdle
    /\ ext = ExtIdle
    /\ store = StoreIdle

Parse(family, parser_result) ==
    /\ prs.pc = "ready"
    /\ prs.family = family
    /\ prs' = [prs EXCEPT !.pc = "done", !.out = parser_result]
    /\ UNCHANGED <<builder, ext, store>>

ParseGeneration == Parse("generation", parse_generation(prs.doc))
ParsePrices == Parse("prices", parse_prices(prs.doc))
ParseLoad == Parse("load", parse_load(prs.doc))
ParsePhysicalNotifications ==
    Parse("physical_notifications", parse_physical_notifications(prs.doc))

\* items = _extract_items_from_json(data)
ExtractItems ==
    /\ prs.pc = "data_loaded"
    /\ prs' = [prs EXCEPT !.pc = "items_found",
                          !.items = _extract_items_from_json(prs.data)]
    /\ UNCHANGED <<builder, ext, store>>

NextParse ==
    \/ ParseGeneration
    \/ ParsePrices
    \/ ParseLoad
    \/ ParsePhysicalNotifications
    \/ ExtractItems

SpecParse == InitParse /\ [][NextParse]_vars

(***************************************************************************)
(* SpecSave: FileHandler.save_raw_data (src/storage/file_handler.py).      *)
(* A path is the sequence of its components; a file system is the set of   *)
(* its directories and the map from its files to their contents.           *)
(***************************************************************************)
\* the directories mkdir(parents=True, exist_ok=True) makes sure of
Ancestors(path) == { SubSeq(path, 1, n) : n \in 1..Len(path) }

\* FileHandler.save_raw_data: the file system after the call.  An exception
\* of mkdir (a file stands where a directory is needed) or of open (the path
\* is a directory) is caught and logged.
save_raw_data(fs, raw_data, output_dir) ==
    IF ~Truthy(raw_data.payload)
    THEN fs
    ELSE LET full_path == output_dir \o raw_data.filename
             parent    == SubSeq(full_path, 1, Len(full_path) - 1)
         IN  IF \E p \in Ancestors(parent) : p \in DOMAIN fs.files
             THEN fs
             ELSE IF full_path \in fs.dirs
             THEN [fs EXCEPT !.dirs = @ \cup Ancestors(parent)]
             ELSE [dirs  |-> fs.dirs \cup Ancestors(parent),
                   files |-> Put(fs.files, full_path, raw_data.payload)]

\* the file systems a save starts from: empty, the output directory there,
\* an older file at the path of the new one, a file where the output
\* directory should be
FileSystems(output_dir, raw_data) ==
    { [dirs |-> {}, files |-> EmptyDict],
      [dirs |-> Ancestors(output_dir), files |-> EmptyDict],
      [dirs |-> Ancestors(output_dir \o raw_data.filename)
                  \ {output_dir \o raw_data.filename},
       files |-> Put(EmptyDict, output_dir \o raw_data.filename, "<xml>old</xml>")],
      [dirs |-> Ancestors(output_dir) \ {output_dir},
       files |-> Put(EmptyDict, output_dir, "<xml>old</xml>")] }

InitSave ==
    /\ \E payload \in Texts \cup {None}, source_name \in {"elexon", "entsoe"},
          filename \in { <<"2024-01-01.xml">>,
                         <<"generation_per_type", "2024-12-30.xml">> },
          output_dir \in { <<"bronze">>, <<"data", "bronze">> } :
         LET raw_data == RawData(payload, source_name, filename)
         IN  \E fs \in FileSystems(output_dir, raw_data) :
               store = [pc |-> "ready", raw_data |-> raw_data,
                        output_dir |-> output_dir, before |-> fs, fs |-> fs]
    /\ builder = BuilderIdle
    /\ ext = ExtIdle
    /\ prs = PrsIdle

\* file_handler.save_raw_data(raw_data, str(output_dir))
SaveRawData ==
    /\ store.pc = "ready"
    /\ store' = [store EXCEPT !.pc = "saved",
                   !.fs = save_raw_data(store.fs, store.raw_data, store.output_dir)]
    /\ UNCHANGED <<builder, ext, prs>>

SpecSave == InitSave /\ [][SaveRawData]_vars

(***************************************************************************)
(* Claims about the parameter builders (SpecBuild).                        *)
(***************************************************************************)
WindowDays == builder.end_date - builder.start_date + 1

BuilderDone(date_type) ==
    /\ builder.pc = "done"
    /\ builder.impl \in {"package", "module"}
    /\ builder.report.date_param_type = date_type
    /\ builder.start_date <= builder.end_date

\* C1: for a from_to_date descriptor and a window with start <= end, the
\* builder emits exactly (end - start).days + 1 entries, the i-th one for the
\* i-th calendar day of the window (its logicalPath is {reportName}/{day}.{ext}).
C1_FromToDateOnePerDay ==
    BuilderDone("from_to_date") =>
      /\ Len(builder.emissions) = WindowDays
      /\ \A i \in DOMAIN builder.emissions :
           LET day == Iso(builder.start_date + i - 1)
           IN  builder.emissions[i].filename \in
                 { builder.report.name \o "/" \o day \o ".xml",
                   builder.report.name \o "/" \o day \o ".json" }

\* C2: for a settlement_date_period descriptor under the legacy dialect the
\* builder emits 48 entries a day, days ascending, and within each day the
\* Period values "1".."48" ascending without gap or repeat.
C2_LegacyPerPeriod ==
    (BuilderDone("settlement_date_period") /\ ~IsPublicUrl(builder.config.base_url)) =>
      /\ Len(builder.emissions) = 48 * WindowDays
      /\ \A i \in DOMAIN builder.emissions :
           LET params == builder.emissions[i].params
           IN  /\ {"SettlementDate", "Period"} \subseteq DOMAIN params
               /\ params["SettlementDate"] = Iso(builder.start_date + ((i - 1) \div 48))
               /\ params["Period"] = ToString(((i - 1) % 48) + 1)

\* C3: for a settlement_date_period descriptor under the public dialect the
\* builder emits exactly one entry per calendar day of the window, each with
\* settlementPeriodFrom and settlementPeriodTo.
C3_PublicOnePerDay ==
    (BuilderDone("settlement_date_period") /\ IsPublicUrl(builder.config.base_url)) =>
      /\ Len(builder.emissions) = WindowDays
      /\ \A i \in DOMAIN builder.emissions :
           {"settlementPeriodFrom", "settlementPeriodTo"}
             \subseteq DOMAIN builder.emissions[i].params

(***************************************************************************)
(* Claims about the parsers (SpecParse).                                   *)
(***************************************************************************)
\* the points of a document in document order, each with its Period's start
\* time and resolution token and its series' label
RECURSIVE FlatPeriods(_, _)
FlatPeriods(periods, label) ==
    IF periods = << >> THEN << >>
    ELSE [j \in DOMAIN Head(periods).points |->
            [start |-> Head(periods).start, token |-> Head(periods).resolution,
             position |-> Head(periods).points[j].position, label |-> label]]
         \o FlatPeriods(Tail(periods), label)

RECURSIVE FlatPoints(_)
FlatPoints(series) ==
    IF series = << >> THEN << >>
    ELSE FlatPeriods(Head(series).periods, Head(series).label)
           \o FlatPoints(Tail(series))

IsStartText(text) == \E i \in DOMAIN StartTexts : StartTexts[i] = text
IsPositionText(text) == \E p \in DOMAIN PositionTexts : PositionTexts[p] = text
PositionOf(text) == CHOOSE p \in DOMAIN PositionTexts : PositionTexts[p] = text

\* a Period that has its start time, its resolution and, for each point, an
\* integer position and a numeric value
SoundPeriod(period) ==
    /\ IsStartText(period.start)
    /\ period.resolution \in Tokens
    /\ \A j \in DOMAIN period.points :
         /\ IsPositionText(period.points[j].position)
         /\ period.points[j].quantity \in NumericTexts

\* a well-formed document whose series have a label and one sound Period
SoundDocument(doc) ==
    /\ doc.wellformed
    /\ \A i \in DOMAIN doc.series :
         /\ doc.series[i].label # None
         /\ Len(doc.series[i].periods) = 1
         /\ SoundPeriod(doc.series[i].periods[1])

\* truncated or invalid text, or a Period lacking its start time, resolution,
\* a position or a value, or carrying a non-numeric one
MalformedDocument(doc) ==
    \/ ~doc.wellformed
    \/ \E i \in DOMAIN doc.series : \E j \in DOMAIN doc.series[i].periods :
         ~SoundPeriod(doc.series[i].periods[j])

\* the timestamp of a point: S + (p - 1) * r minutes
PointTimestamp(point) ==
    StartMinutes(point.start) + (PositionOf(point.position) - 1) * TokenMinutes(point.token)

\* C4: the record of the point at position p of a Period with start time S and
\* resolution r minutes has timestamp S + (p - 1) * r.
C4_TimestampOfPosition ==
    (prs.pc = "done" /\ SoundDocument(prs.doc) /\ ~prs.out.raised) =>
      LET points == FlatPoints(prs.doc.series)
      IN  /\ Len(prs.out.records) = Len(points)
          /\ \A i \in DOMAIN points :
               prs.out.records[i].timestamp = PointTimestamp(points[i])

\* C5: a parser never raises, and a malformed document gives no record.
C5_ParserTotal ==
    prs.pc = "done" =>
      /\ ~prs.out.raised
      /\ MalformedDocument(prs.doc) => prs.out.records = << >>

\* C9: every parser reduces a resolution token to its number of minutes, an
\* hour token times 60: PT15M to 15, PT30M to 30, PT1H to 60.
C9_ResolutionMinutes ==
    prs.pc = "done" =>
      \A i \in DOMAIN prs.out.log :
        prs.out.log[i].token \in Tokens =>
          /\ ~prs.out.log[i].raised
          /\ prs.out.log[i].minutes = TokenMinutes(prs.out.log[i].token)

\* C10: parse_generation on k series blocks, each with a label and one Period
\* of n_i points, returns n_1 + ... + n_k records, each with the label of its
\* series and the timestamp its Period's start and resolution give its position.
C10_GenerationRecords ==
    (prs.pc = "done" /\ prs.family = "generation" /\ prs.doc.encoding = "xml"
       /\ SoundDocument(prs.doc)) =>
      LET points == FlatPoints(prs.doc.series)
      IN  /\ ~prs.out.raised
          /\ Len(prs.out.records) = Len(points)
          /\ \A i \in DOMAIN points :
               /\ prs.out.records[i].label = points[i].label
               /\ prs.out.records[i].timestamp = PointTimestamp(points[i])

(***************************************************************************)
(* Claims about the clients and connectors (SpecExtract).                  *)
(***************************************************************************)
\* C6: make_request never raises: it returns None on a failed GET and the
\* response text otherwise.
C6_MakeRequestNeverRaises ==
    /\ ~ext.last.raised
    /\ ext.last.sent =>
         ext.last.value = IF ext.last.response.kind = "ok"
                          THEN ext.last.response.text ELSE None

\* the endpoint of the config needs a credential: ENTSO-E, or an Elexon base
\* URL of the legacy dialect
RequiresCredential ==
    ~IsElexon(ext.kind) \/ ~IsPublicUrl(ext.config.base_url)

HasCredential ==
    ResolveApiKey(ext.config.api_key, ext.env) \notin {None, ""}

\* C8: constructing a connector for an endpoint that requires a credential
\* without one raises at construction, before any request is built or sent.
C8_FailFastWithoutCredential ==
    (ext.pc # "new" /\ RequiresCredential /\ ~HasCredential) =>
      /\ ext.pc = "config_error"
      /\ ext.emissions = << >>
      /\ ext.calls = << >>

\* the RawData of the calls that pass a test, in call order
C7_NonEmpty(call) == call.value \notin {None, ""}

C7_NonEmptyUnmarked(call) ==
    /\ call.value \notin {None, ""}
    /\ IsElexon(ext.kind) => call.value # INVALID_KEY_TEXT

C7_Wrapped(calls) ==
    [i \in DOMAIN calls |->
       [payload |-> calls[i].value, source_name |-> SourceName(ext.kind),
        filename |-> calls[i].filename]]

\* every emission was requested once, in emission order
C7_AllRequested ==
    /\ Len(ext.calls) = Len(ext.emissions)
    /\ \A i \in DOMAIN ext.calls : ext.calls[i].filename = ext.emissions[i].filename

ParamOf(params, key) == IF key \in DOMAIN params THEN params[key] ELSE None

\* C11: for a descriptor with code B1610 or B1620, build_params_for_report
\* returns from = start and to = end as ISO dates, format = "json", and
\* settlementPeriodFrom / settlementPeriodTo equal to the descriptor's static
\* params when it supplies them and to the defaults 1 and 36 otherwise.
C11_RangeParams ==
    (builder.pc = "params_done" /\ builder.report.code \in {"B1610", "B1620"}) =>
      LET static == builder.report.params
      IN  /\ ParamOf(builder.params, "from") = Iso(builder.start_date)
          /\ ParamOf(builder.params, "to") = Iso(builder.end_date)
          /\ ParamOf(builder.params, "format") = "json"
          /\ ParamOf(builder.params, "settlementPeriodFrom") =
               (IF "settlementPeriodFrom" \in DOMAIN static
                THEN static["settlementPeriodFrom"] ELSE "1")
          /\ ParamOf(builder.params, "settlementPeriodTo") =
               (IF "settlementPeriodTo" \in DOMAIN static
                THEN static["settlementPeriodTo"] ELSE "36")

\* build_params_for_report has returned for a B1610 descriptor that supplies
\* its own settlement-period range, on a window of one day
C11_Witness ==
    /\ builder.pc = "params_done"
    /\ builder.report.code = "B1610"
    /\ "settlementPeriodFrom" \in DOMAIN builder.report.params
    /\ builder.start_date = builder.end_date
    /\ ParamOf(builder.params, "from") = ParamOf(builder.params, "to")
    /\ ParamOf(builder.params, "settlementPeriodTo") = "40"

(***************************************************************************)
(* Claims about the requests of the ENTSO-E connectors.                    *)
(***************************************************************************)
\* the domain parameters of the query an ENTSO-E call belongs to whose
\* placeholder resolves to empty
C12_EmptyDomainKeys(call) ==
    UNION { { k \in DOMAIN ext.config.reports[j].domain_params :
                _resolve_placeholder(EntsoeTree,
                                     ext.config.reports[j].domain_params[k]) = "" }
            : j \in { j \in DOMAIN ext.config.reports :
                        ext.config.reports[j].name = call.name } }

\* C12: a domain parameter whose placeholder resolves to empty is absent from
\* the parameter map sent for every day of the window, and extraction does not
\* raise.
C12_EmptyDomainParamOmitted ==
    ~IsElexon(ext.kind) =>
      /\ ext.pc # "raised"
      /\ \A i \in DOMAIN ext.calls :
           C12_EmptyDomainKeys(ext.calls[i]) \cap DOMAIN ext.calls[i].params = {}

\* the string at the end of a token's dotted path in the config block
\* {primary_bidding_zone: "10YGB----------A", interconnectors: {FR: "10YFR-RTE------C"}},
\* empty when a segment is missing or lies below a string
C13_Expected(placeholder) ==
    CASE placeholder = "${primary_bidding_zone}"    -> "10YGB----------A"
      [] placeholder = "${interconnectors.FR}"      -> "10YFR-RTE------C"
      [] placeholder = "${interconnectors.XX}"      -> ""
      [] placeholder = "${missing_zone}"            -> ""
      [] placeholder = "${primary_bidding_zone.FR}" -> ""

\* C13: a token ${name} or ${a.b.c} resolves to the string found by walking its
\* keys from the root of the connector's config, and to the empty string when a
\* segment is missing or a string is reached before the last segment.
C13_PlaceholderResolution ==
    (builder.pc \in {"done", "rerun"}
       /\ builder.impl \in {"entsoe_package", "entsoe_module"}) =>
      \A k \in DOMAIN builder.resolved :
        builder.report.domain_params[k] \in Placeholders =>
          builder.resolved[k] = C13_Expected(builder.report.domain_params[k])

\* a query whose in_Domain names a key below a string and whose out_Domain
\* names a nested key has been resolved
C13_Witness ==
    /\ builder.pc = "done"
    /\ builder.impl = "entsoe_package"
    /\ builder.report.domain_params =
         [in_Domain |-> "${primary_bidding_zone.FR}", out_Domain |-> "${interconnectors.FR}"]
    /\ builder.resolved = [in_Domain |-> "", out_Domain |-> "10YFR-RTE------C"]

\* C14: a domain_params entry whose value is a literal rather than a ${...}
\* token is sent unchanged, the ${...} entries of the same query are replaced
\* by their resolved config values, and the query's static params are kept.
C14_LiteralDomainParamKept ==
    (builder.pc = "done" /\ builder.impl \in {"entsoe_package", "entsoe_module"}) =>
      \A i \in DOMAIN builder.emissions :
        LET params == builder.emissions[i].params
            query  == builder.report
        IN  /\ \A k \in DOMAIN query.domain_params :
                 IF query.domain_params[k] \in Placeholders
                 THEN C13_Expected(query.domain_params[k]) # "" =>
                        ParamOf(params, k) = C13_Expected(query.domain_params[k])
                 ELSE ParamOf(params, k) = query.domain_params[k]
            /\ \A k \in DOMAIN query.params : ParamOf(params, k) = query.params[k]

(***************************************************************************)
(* Claims about the requests of the Elexon connectors (SpecExtract).       *)
(***************************************************************************)
\* C15: when the params handed to the client already hold a key the dialect
\* mandates (format under the public dialect; APIKey and ServiceType under the
\* legacy one), the request sent carries the dialect's value for that key.
C15_DialectKeysTakePrecedence ==
    IsElexon(ext.kind) =>
      \A i \in DOMAIN ext.calls :
        LET caller == ext.emissions[i].params
            sent   == ext.calls[i].params
        IN  IF IsPublicUrl(ext.config.base_url)
            THEN "format" \in DOMAIN caller => ParamOf(sent, "format") = "json"
            ELSE /\ "APIKey" \in DOMAIN caller =>
                      ParamOf(sent, "APIKey") = ext.client.api_key
                 /\ "ServiceType" \in DOMAIN caller =>
                      ParamOf(sent, "ServiceType") = "xml"

\* the calls of a finished extract: a text with the invalid-key marker gives no
\* RawData, and every other non-empty text is returned with its filename
C16_MarkerSkippedOthersKept ==
    \A i \in DOMAIN ext.calls :
      IF HasInvalidKeyMarker(ext.calls[i].value)
      THEN \A r \in DOMAIN ext.result : ext.result[r].filename # ext.calls[i].filename
      ELSE Truthy(ext.calls[i].value) =>
             \E r \in DOMAIN ext.result :
               ext.result[r] = RawData(ext.calls[i].value, SourceName(ext.kind),
                                       ext.calls[i].filename)

C17_PathTable ==
    IF ext.kind = "elexon_package" THEN PUBLIC_ENDPOINTS ELSE _public_code_path_map

\* C17: under the public dialect the request path of a code of the
\* code-to-path table (B1620, B1610) is the table entry; for an unmapped code
\* under the public dialect, and for every code under the legacy dialect, it is
\* {code}/{version} appended to the base URL.
C17_RequestPath ==
    IsElexon(ext.kind) =>
      \A i \in DOMAIN ext.calls :
        LET code == ext.emissions[i].code
            base == ext.config.base_url
        IN  ext.calls[i].url =
              IF IsPublicUrl(base) /\ code \in {"B1620", "B1610"}
              THEN base \o "/" \o C17_PathTable[code]
              ELSE base \o "/" \o code \o "/" \o ext.emissions[i].version

\* the package connector has requested an unmapped and a mapped code under the
\* public dialect
C17_Witness ==
    /\ ext.kind = "elexon_package"
    /\ IsPublicUrl(ext.config.base_url)
    /\ Len(ext.calls) >= 2
    /\ ext.emissions[1].code = "BOALF"
    /\ ext.emissions[2].code = "B1620"
    /\ ext.calls[2].url = "https://data.elexon.co.uk/bmrs/api/v1/generation/actual/per-type"

ElexonBuilderDone ==
    /\ builder.pc = "done"
    /\ builder.impl \in {"package", "module"}

\* C19: for a descriptor without date_param_type the builder emits exactly one
\* entry, for any window, whose params are exactly the descriptor's static
\* params and whose logicalPath is {reportName}/{reportName}.{ext}.
C19_NoDateTypeOneStaticEntry ==
    (ElexonBuilderDone /\ builder.report.date_param_type = None) =>
      /\ Len(builder.emissions) = 1
      /\ builder.emissions[1].params = builder.report.params
      /\ builder.emissions[1].filename \in
           { builder.report.name \o "/" \o builder.report.name \o ".xml",
             builder.report.name \o "/" \o builder.report.name \o ".json" }

\* the file stems the builders give a logicalPath: the report name, a day, a
\* day and a period, or a date range
C20_Stems ==
    {builder.report.name}
      \cup { Iso(d) : d \in Days }
      \cup { Iso(d) \o "_P" \o Pad2(p) : d \in Days, p \in 1..SETTLEMENT_PERIODS }
      \cup { Iso(a) \o "_to_" \o Iso(b) : a \in Days, b \in Days }

\* the logicalPaths of a report with a given extension
C20_Paths(extension) ==
    { builder.report.name \o "/" \o stem \o extension : stem \in C20_Stems }

\* C20: the extension of every emission's logicalPath is .xml under the legacy
\* dialect and .json under the public dialect, whatever the report code or
\* date_param_type.
C20_ExtensionByDialect ==
    ElexonBuilderDone =>
      \A i \in DOMAIN builder.emissions :
        builder.emissions[i].filename \in
          C20_Paths(IF IsPublicUrl(builder.config.base_url) THEN ".json" ELSE ".xml")

\* the helper has been called on a connector of the legacy dialect
C21_LegacyHelperDone ==
    /\ builder.pc = "helper_done"
    /\ ~IsPublicUrl(builder.config.base_url)

\* C21: for a legacy-dialect ElexonConnector, build_params_for_report returns
\* a params map that holds APIKey = the credential and ServiceType = "xml",
\* and FromDate = ToDate = the ISO date for a from_to_date report, or
\* SettlementDate = the ISO date and Period = the period in decimal for a
\* settlement_date_period report; called with no date for a report without
\* date_param_type it returns the static params plus the credential keys.
C21_LegacyHelperParams ==
    C21_LegacyHelperDone =>
      LET report == builder.report
          args   == builder.args
          got    == builder.returned
          dated  == "current_date" \in DOMAIN args
      IN  /\ (dated \/ report.date_param_type = None) =>
                /\ ~got.raised
                /\ ~got.none
                /\ ParamOf(got.params, "APIKey") = builder.config.api_key
                /\ ParamOf(got.params, "ServiceType") = "xml"
          /\ (dated /\ report.date_param_type = "from_to_date") =>
                /\ ParamOf(got.params, "FromDate") = Iso(args.current_date)
                /\ ParamOf(got.params, "ToDate") = Iso(args.current_date)
          /\ (dated /\ "period" \in DOMAIN args
                /\ report.date_param_type = "settlement_date_period") =>
                /\ ParamOf(got.params, "SettlementDate") = Iso(args.current_date)
                /\ ParamOf(got.params, "Period") = ToString(args.period)
          /\ (~dated /\ report.date_param_type = None) =>
                got.params = WithCredential(report.params, builder.config.api_key)

\* the Gregorian calendar, by which the day after a date is found
C22_IsLeap(y) == (y % 4 = 0 /\ y % 100 # 0) \/ y % 400 = 0

C22_DaysInMonth(y, m) ==
    IF m = 2 THEN (IF C22_IsLeap(y) THEN 29 ELSE 28)
    ELSE IF m \in {4, 6, 9, 11} THEN 30 ELSE 31

\* date + timedelta(days=1), a date being <<year, month, day>>
C22_NextDay(date) ==
    IF date[3] < C22_DaysInMonth(date[1], date[2])
    THEN <<date[1], date[2], date[3] + 1>>
    ELSE IF date[2] < 12 THEN <<date[1], date[2] + 1, 1>>
    ELSE <<date[1] + 1, 1, 1>>

\* the calendar date of a day number of the model: day 0 is 2024-12-30
RECURSIVE C22_Civil(_)
C22_Civil(d) == IF d = 0 THEN <<2024, 12, 30>> ELSE C22_NextDay(C22_Civil(d - 1))

\* YYYYMMDD of a date, and YYYYMMDDHHMM of its midnight
C22_Ymd(date) == ToString(date[1]) \o Pad2(date[2]) \o Pad2(date[3])
C22_Midnight(date) == C22_Ymd(date) \o "0000"

\* the order of dates
C22_Later(a, b) ==
    \/ a[1] > b[1]
    \/ a[1] = b[1] /\ a[2] > b[2]
    \/ a[1] = b[1] /\ a[2] = b[2] /\ a[3] > b[3]

\* C22: EntsoeConnector.build_params_for_query(query, day) returns the query's
\* static params plus documentType, securityToken = the credential, periodStart
\* = that day at 00:00 and periodEnd = the next calendar day at 00:00, both as
\* YYYYMMDDHHMM; periodEnd is strictly later than periodStart for every date,
\* month ends and year ends included.
C22_QueryParams ==
    builder.pc = "query_done" =>
      LET day    == C22_Civil(builder.args.query_date)
          next   == C22_NextDay(day)
          params == builder.params
      IN  /\ \A k \in DOMAIN builder.report.params :
               ParamOf(params, k) = builder.report.params[k]
          /\ ParamOf(params, "documentType") = builder.report.documentType
          /\ ParamOf(params, "securityToken") = builder.config.api_key
          /\ ParamOf(params, "periodStart") = C22_Midnight(day)
          /\ ParamOf(params, "periodEnd") = C22_Midnight(next)
          /\ C22_Later(next, day)
          /\ ParamOf(params, "periodEnd") # ParamOf(params, "periodStart")

\* the helper was called for the last day of a year
C22_Witness ==
    /\ builder.pc = "query_done"
    /\ C22_Civil(builder.args.query_date) = <<2024, 12, 31>>
    /\ ParamOf(builder.params, "periodStart") = "202412310000"
    /\ ParamOf(builder.params, "periodEnd") = "202501010000"

\* an ENTSO-E extract in which every request so far returned non-empty text
C23_AllSucceeded ==
    /\ ~IsElexon(ext.kind)
    /\ \A i \in DOMAIN ext.calls : Truthy(ext.calls[i].value)

\* the calendar days of the window, by counting from start_date
C23_WindowDays == { d \in Days : ext.start_date <= d /\ d <= ext.end_date }

\* the index, among the requests, of the request of query q (by position in the
\* config) for day d
C23_Index(q, d) == (q - 1) * Cardinality(C23_WindowDays) + (d - ext.start_date) + 1

C24_Saveable ==
    /\ store.pc = "saved"
    /\ Truthy(store.raw_data.payload)
    /\ store.before.files = EmptyDict

\* C24: FileHandler.save_raw_data(raw, bronzeRoot) writes raw.payload,
\* unchanged, to the file {bronzeRoot}/{raw.source_name}/{raw.filename},
\* creating the source directory and any missing parent directories.
C24_SavedUnderSourceDirectory ==
    C24_Saveable =>
      LET source_dir == store.output_dir \o <<store.raw_data.source_name>>
          full_path  == source_dir \o store.raw_data.filename
      IN  /\ full_path \in DOMAIN store.fs.files
          /\ store.fs.files[full_path] = store.raw_data.payload
          /\ source_dir \in store.fs.dirs
          /\ \A n \in 1..(Len(full_path) - 1) : SubSeq(full_path, 1, n) \in store.fs.dirs

\* the emission sequence of one descriptor of the connector's config
C25_DescriptorEmissions(descriptor) ==
    Emissions(ext.kind, ext.client, <<descriptor>>, ext.start_date, ext.end_date)

\* the concatenation of the descriptors' emission sequences, in config order
RECURSIVE C25_Concatenation(_)
C25_Concatenation(descriptors) ==
    IF descriptors = << >> THEN << >>
    ELSE C25_DescriptorEmissions(Head(descriptors))
           \o C25_Concatenation(Tail(descriptors))

\* the call was made for the emission
C25_CallOf(call, emission) ==
    /\ call.name = emission.name
    /\ call.filename = emission.filename

\* the calls whose return the connector keeps
C25_KeptCall(call) == Kept(ext.kind, call.value)

\* the requests made so far are the first emissions, one request each, in order,
\* and the payloads are in the order of their requests
C25_InOrder ==
    /\ ext.emissions = C25_Concatenation(ext.config.reports)
    /\ Len(ext.calls) <= Len(ext.emissions)
    /\ \A i \in DOMAIN ext.calls : C25_CallOf(ext.calls[i], ext.emissions[i])
    /\ ext.result = C7_Wrapped(SelectSeq(ext.calls, C25_KeptCall))

\* C25: the sequence of GET requests issued by one extract(start, end) call
\* equals the concatenation, in configured descriptor order, of each
\* descriptor's emission sequence: exactly one request per emission, never a
\* second one, in emission order, and the RawPayloads appear in that order.
C25_RequestsAreTheEmissions ==
    /\ ext.pc \in {"extracting", "done", "raised"} => C25_InOrder
    /\ ext.pc \in {"done", "raised"} => Len(ext.calls) = Len(ext.emissions)

\* a well-formed document whose series have a label and sound Periods, one of
\* the series holding more than one Period
C26_SoundMultiPeriod(doc) ==
    /\ doc.wellformed
    /\ \A i \in DOMAIN doc.series :
         /\ doc.series[i].label # None
         /\ \A j \in DOMAIN doc.series[i].periods :
              SoundPeriod(doc.series[i].periods[j])
    /\ \E i \in DOMAIN doc.series : Len(doc.series[i].periods) > 1

\* C26: when a series block holds more than one Period, the parser emits a
\* record for every point of every Period of that series, each timestamped
\* from its own Period's start time and resolution; no Period after the first
\* is dropped.
C26_EveryPeriodParsed ==
    (prs.pc = "done" /\ C26_SoundMultiPeriod(prs.doc) /\ ~prs.out.raised) =>
      LET points == FlatPoints(prs.doc.series)
      IN  /\ Len(prs.out.records) = Len(points)
          /\ \A i \in DOMAIN points :
               prs.out.records[i].timestamp = PointTimestamp(points[i])

\* a list of records: a non-empty list that starts with a dict
C27_IsRecordList(node) ==
    /\ node.tag = "list"
    /\ node.val # << >>
    /\ node.val[1].tag = "dict"

\* the values directly below a JSON value
C27_Children(node) ==
    IF node.tag = "list" THEN { node.val[i] : i \in DOMAIN node.val }
    ELSE IF node.tag = "dict" THEN { node.val[i].value : i \in DOMAIN node.val }
    ELSE {}

\* the lists of records anywhere in a JSON value
RECURSIVE C27_RecordLists(_)
C27_RecordLists(node) ==
    (IF C27_IsRecordList(node) THEN {node.val} ELSE {})
      \cup UNION { C27_RecordLists(child) : child \in C27_Children(node) }

\* the container keys of a dict whose value is or holds a list of records
C27_LeadingKeys(node) ==
    { i \in DOMAIN ContainerKeys :
        \E j \in DOMAIN node.val :
          /\ node.val[j].key = ContainerKeys[i]
          /\ C27_RecordLists(node.val[j].value) # {} }

\* C27: item lookup tries the container keys in a fixed order (responseBody,
\* data, results, items, dataset, dataSets, rows, timeSeries) and, whenever
\* those keys do not lead to a list of records, falls back to the first list of
\* records found anywhere in the document; it returns an empty sequence only
\* when the document holds no list of records at all.
C27_ItemLookup ==
    prs.pc = "items_found" =>
      /\ prs.items # << >> => prs.items \in C27_RecordLists(prs.data)
      /\ prs.items = << >> => C27_RecordLists(prs.data) = {}
      /\ (prs.data.tag = "dict" /\ C27_LeadingKeys(prs.data) # {}) =>
           LET i == CHOOSE x \in C27_LeadingKeys(prs.data) :
                      \A y \in C27_LeadingKeys(prs.data) : x <= y
               j == CHOOSE x \in DOMAIN prs.data.val :
                      prs.data.val[x].key = ContainerKeys[i]
           IN  prs.items \in C27_RecordLists(prs.data.val[j].value)

\* the descriptors of the model that a config can hold next to the builder's
\* own: the ones with another name
C28_OtherDescriptors ==
    IF builder.impl \in {"package", "module"}
    THEN { Report(code, date_type, params)
           : code \in Codes \ {builder.report.code}, date_type \in DateTypes,
             params \in {EmptyDict} }
    ELSE { query \in UNION { { list[i] : i \in DOMAIN list } : list \in EntsoeQueryLists }
           : query.name # builder.report.name }

\* the logicalPaths of a descriptor's emissions over the builder's window
C28_Paths(descriptor) ==
    LET emissions == BuilderEmissions(builder.impl, builder.config, descriptor,
                                      builder.start_date, builder.end_date)
    IN  { emissions[i].filename : i \in DOMAIN emissions }

\* C28: within one extract call over descriptors with pairwise distinct names,
\* no two emissions (over all descriptors, all days and all settlement periods
\* of the window) have the same logicalPath.
C28_DistinctLogicalPaths ==
    builder.pc = "done" =>
      /\ \A i \in DOMAIN builder.emissions : \A j \in DOMAIN builder.emissions :
           i # j => builder.emissions[i].filename # builder.emissions[j].filename
      /\ \A other \in C28_OtherDescriptors :
           /\ other.name # builder.report.name
           /\ C28_Paths(other) \cap C28_Paths(builder.report) = {}

\* a builder has run over more than one day: the module builder for a report
\* with one emission per settlement period, or the package builder for a
\* from_to_date report
C28_Witness ==
    /\ builder.pc = "done"
    /\ builder.end_date > builder.start_date
    /\ \/ /\ builder.impl = "module"
          /\ Len(builder.emissions) >= 2 * SETTLEMENT_PERIODS
       \/ /\ builder.impl = "package"
          /\ builder.report.date_param_type = "from_to_date"
          /\ Len(builder.emissions) >= 2

\* the emission of the request made last
C29_LastEmission ==
    ext.emissions[IF ext.pc = "raised" THEN ext.next ELSE ext.next - 1]

C30_PerDay(descriptor) ==
    IsElexon(ext.kind) =>
      descriptor.date_param_type \in {"from_to_date", "settlement_date_period"}

\* the most emissions a window can give: one per descriptor, day and period
C30_MostEmissions ==
    Len(ext.config.reports) * SETTLEMENT_PERIODS
      * (IF ext.start_date <= ext.end_date
         THEN ext.end_date - ext.start_date + 1 ELSE 1)

\* C30: for every window, start > end included, each builder's emission
\* sequence is finite and the extract loop ends; when start > end a per-day
\* descriptor (an Elexon from_to_date or settlement_date_period report, or any
\* ENTSO-E query) yields no emission and no request is sent for it.
C30_EmptyWindowNoRequest ==
    ext.pc \in {"extracting", "done", "raised"} =>
      /\ Len(ext.emissions) <= C30_MostEmissions
      /\ Len(ext.calls) <= Len(ext.emissions)
      /\ ext.pc = "done" => ext.next = Len(ext.emissions) + 1
      /\ ext.start_date > ext.end_date =>
           \A i \in DOMAIN ext.config.reports :
             C30_PerDay(ext.config.reports[i]) =>
               /\ \A j \in DOMAIN ext.emissions :
                    ext.emissions[j].name # ext.config.reports[i].name
               /\ \A j \in DOMAIN ext.calls :
                    ext.calls[j].name # ext.config.reports[i].name

====
